---- MODULE Spec2Model ----
(***************************************************************************)
(* Sign Language Prediction Server (src/server/app.py).                    *)
(*                                                                         *)
(* The process holds three module globals (model, label_encoder, scaler),  *)
(* fills them once in load_models() from three pickle files during the     *)
(* startup event, and afterwards serves GET /health, POST /predict and     *)
(* GET /.  The classifier, the decoder and the scaler are opaque pickled   *)
(* objects: what their methods return (or raise) for one request is drawn  *)
(* from small sets.  Floating point values are fixed-point integers with   *)
(* Scale standing for 1.0.                                                 *)
(***************************************************************************)
EXTENDS Integers, Sequences, FiniteSets, TLC

VARIABLES files, model, label_encoder, scaler, pc, loads, req, obs, calls, resp

vars == <<files, model, label_encoder, scaler, pc, loads, req, obs, calls, resp>>

bundle == <<model, label_encoder, scaler>>

(***************************************************************************)
(* Bounds of the model.                                                    *)
(***************************************************************************)
MaxLen == 64        \* feature lists of 0..MaxLen entries are submitted
MaxIdx == 2         \* model.predict returns a class index in 0..MaxIdx
MaxClasses == 2     \* a pickled label encoder knows 1..MaxClasses classes
MaxScore == 1       \* decision_function scores lie in 0..MaxScore
Scale == 1000       \* fixed-point resolution: Scale stands for 1.0

(***************************************************************************)
(* Program constant.                                                       *)
(***************************************************************************)
expected_features == 63

(***************************************************************************)
(* Values.                                                                 *)
(***************************************************************************)
Letters == <<"A", "B", "C", "D", "E", "F", "G", "H">>

Digits == <<"0", "1", "2", "3", "4", "5", "6", "7", "8", "9">>

\* str(n) / f"{n}" of a non-negative int: its decimal digits.
RECURSIVE ToStr(_)
ToStr(n) == IF n < 10 THEN Digits[n + 1]
            ELSE ToStr(n \div 10) \o Digits[(n % 10) + 1]

\* The globals start as None; an absent artifact is a record with present = FALSE.
NoModel == [present |-> FALSE, hasProba |-> FALSE, hasDecision |-> FALSE]

NoEncoder == [present |-> FALSE, hasInverse |-> FALSE, classes |-> <<>>]

NoScaler == [present |-> FALSE]

\* What a model file can unpickle to: any object; what matters to the server
\* is whether it has predict_proba and decision_function.
ModelObjects ==
    { [present |-> TRUE, hasProba |-> p, hasDecision |-> d] : p \in BOOLEAN, d \in BOOLEAN }

\* What an encoder file can unpickle to: an object with or without
\* inverse_transform, knowing the first k letters as its classes_.
EncoderObjects ==
    { [present |-> TRUE, hasInverse |-> h, classes |-> SubSeq(Letters, 1, k)] :
        h \in BOOLEAN, k \in 1..MaxClasses }

ScalerObjects == { [present |-> TRUE] }

\* A file on disk: missing, present and loadable, or present and not unpicklable.
FileStates(objects, none) ==
    { [exists |-> FALSE, ok |-> FALSE, obj |-> none] }
    \cup { [exists |-> TRUE, ok |-> FALSE, obj |-> none] }
    \cup { [exists |-> TRUE, ok |-> TRUE, obj |-> o] : o \in objects }

IsNone(x) == ~ x.present

Max(S) == CHOOSE x \in S : \A y \in S : y <= x

RECURSIVE SeqSum(_)
SeqSum(s) == IF s = <<>> THEN 0 ELSE Head(s) + SeqSum(Tail(s))

Range(s) == { s[i] : i \in 1..Len(s) }

(***************************************************************************)
(* Startup: startup_event calls load_models, which loads the three files   *)
(* one after the other.  pc is the position of the process.                *)
(***************************************************************************)
\* One "if os.path.exists(path): with open(path) as f: x = pickle.load(f)"
\* block: the new value of the global, or the exception pickle.load raised.
load_artifact(file, cur) ==
    IF file.exists
    THEN IF file.ok
         THEN [raised |-> FALSE, val |-> file.obj]
         ELSE [raised |-> TRUE, val |-> cur]
    ELSE [raised |-> FALSE, val |-> cur]

\* The startup event begins and calls load_models().
StartupBegin ==
    /\ pc = "boot"
    /\ pc' = "load_model"
    /\ loads' = loads + 1
    /\ UNCHANGED <<files, model, label_encoder, scaler, req, obs, calls, resp>>

LoadModel ==
    /\ pc = "load_model"
    /\ LET r == load_artifact(files.model, model) IN
         /\ model' = r.val
         /\ pc' = IF r.raised THEN "crashed" ELSE "load_encoder"
    /\ UNCHANGED <<files, label_encoder, scaler, loads, req, obs, calls, resp>>

\* Mutant of LoadEncoder: load_models returns early when the model is missing.
LoadEncoderNeedsModel ==
    /\ pc = "load_encoder"
    /\ LET r == load_artifact(files.encoder, label_encoder) IN
         IF IsNone(model)
         THEN label_encoder' = label_encoder /\ pc' = "loaded"
         ELSE /\ label_encoder' = r.val
              /\ pc' = IF r.raised THEN "crashed" ELSE "load_scaler"
    /\ UNCHANGED <<files, model, scaler, loads, req, obs, calls, resp>>

LoadEncoder ==
    /\ pc = "load_encoder"
    /\ LET r == load_artifact(files.encoder, label_encoder) IN
         /\ label_encoder' = r.val
         /\ pc' = IF r.raised THEN "crashed" ELSE "load_scaler"
    /\ UNCHANGED <<files, model, scaler, loads, req, obs, calls, resp>>

LoadScaler ==
    /\ pc = "load_scaler"
    /\ LET r == load_artifact(files.scaler, scaler) IN
         /\ scaler' = r.val
         /\ pc' = IF r.raised THEN "crashed" ELSE "loaded"
    /\ UNCHANGED <<files, model, label_encoder, loads, req, obs, calls, resp>>

\* load_models() has returned; the startup event ends and the server accepts.
StartupEnd ==
    /\ pc = "loaded"
    /\ pc' = "serving"
    /\ UNCHANGED <<files, model, label_encoder, scaler, loads, req, obs, calls, resp>>

\* Mutant of Accepting: the server accepts as soon as the startup event begins.
AcceptingDuringStartup ==
    pc \in {"load_model", "load_encoder", "load_scaler", "loaded", "serving"}

\* Requests are dispatched to the handlers only after the startup event.
Accepting == pc = "serving"

(***************************************************************************)
(* What the pickled objects do when called for one request.  A call either *)
(* returns a value or raises an exception with a message.                  *)
(***************************************************************************)
Ok(v) == [raised |-> FALSE, msg |-> "", val |-> v]

Raise(m, dflt) == [raised |-> TRUE, msg |-> m, val |-> dflt]

TransformOutcomes ==
    { Ok(0), Raise("X has 63 features, but StandardScaler is expecting 42 features", 0) }

PredictOutcomes ==
    { Ok(i) : i \in 0..MaxIdx }
    \cup { Raise("X has 63 features, but LinearSVC is expecting 42 features", 0) }

\* Rows predict_proba(X)[0] can be: class probabilities, summing to Scale.
ProbaRows ==
    { <<Scale, 0>>,
      <<Scale \div 2, Scale - (Scale \div 2)>>,
      <<Scale \div 4, Scale \div 4, Scale - 2 * (Scale \div 4)>> }

ProbaOutcomes ==
    { Ok(r) : r \in ProbaRows } \cup { Raise("predict_proba is not available", <<>>) }

\* decision_function(X)[0] is a numpy scalar for a two-class model and an
\* ndarray of one score per class otherwise.
ScoreRows ==
    { <<0, d>> : d \in 0..MaxScore } \cup { <<d, 0, MaxScore>> : d \in 0..MaxScore }

ScoreValues ==
    { [isarray |-> FALSE, v |-> <<s>>] : s \in 0..MaxScore }
    \cup { [isarray |-> TRUE, v |-> r] : r \in ScoreRows }

ScoreOutcomes ==
    { Ok(v) : v \in ScoreValues }
    \cup { Raise("decision_function failed", [isarray |-> FALSE, v |-> <<0>>]) }

\* The outcomes the objects in use can produce for one request: a method an
\* object does not have, or an object that is absent, produces none.
Envs(m, sc) ==
    [ transform : IF IsNone(sc) THEN {Ok(0)} ELSE TransformOutcomes,
      predict : PredictOutcomes,
      proba : IF m.hasProba THEN ProbaOutcomes ELSE {Ok(<<Scale, 0>>)},
      scores : IF m.hasDecision THEN ScoreOutcomes
               ELSE {Ok([isarray |-> FALSE, v |-> <<0>>])} ]

QuietEnv ==
    [ transform |-> Ok(0), predict |-> Ok(0),
      proba |-> Ok(<<Scale, 0>>), scores |-> Ok([isarray |-> FALSE, v |-> <<0>>]) ]

\* Mutant of inverse_transform: decodes against the whole alphabet, not classes_.
inverse_unchecked(le, idx) == Ok(Letters[idx + 1])

\* LabelEncoder.inverse_transform([idx])[0]: the idx-th known class, or a
\* ValueError for an index the encoder has never seen.
inverse_transform(le, idx) ==
    IF idx < Len(le.classes)
    THEN Ok(le.classes[idx + 1])
    ELSE Raise("y contains previously unseen labels: [" \o ToStr(idx) \o "]", "")

\* np.exp(-k) for an integer k >= 0, in fixed point (e = 2.718).
RECURSIVE ExpNeg(_)
ExpNeg(k) == IF k = 0 THEN Scale ELSE (ExpNeg(k - 1) * 1000) \div 2718

\* exp_scores = np.exp(scores - np.max(scores));
\* float(np.max(exp_scores / exp_scores.sum()))
softmax_max(scores) ==
    LET mx == Max(Range(scores))
        exp_scores == [i \in 1..Len(scores) |-> ExpNeg(mx - scores[i])]
        total == SeqSum(exp_scores)
    IN  Max({ (exp_scores[i] * Scale) \div total : i \in 1..Len(scores) })

(***************************************************************************)
(* Responses.  An Optional[float] is <<>> for None and <<v>> for a value.  *)
(***************************************************************************)
HTTPException(status_code, detail) ==
    [code |-> status_code, kind |-> "error", detail |-> detail]

PredictResponse(prediction, confidence) ==
    [code |-> 200, kind |-> "predict", prediction |-> prediction, confidence |-> confidence]

HealthResponse(status, model_loaded, label_encoder_loaded) ==
    [code |-> 200, kind |-> "health", status |-> status,
     model_loaded |-> model_loaded, label_encoder_loaded |-> label_encoder_loaded]

RootResponse ==
    [code |-> 200, kind |-> "root", name |-> "Sign Language Prediction API",
     version |-> "1.0.0"]

(***************************************************************************)
(* POST /predict                                                           *)
(***************************************************************************)
\* Mutant of ArtifactsMissing: the label encoder check is left out.
ArtifactsMissing_ModelOnly(m, le) == IsNone(m)

\* "if model is None: raise 503" / "if label_encoder is None: raise 503"
ArtifactsMissing(m, le) == IsNone(m) \/ IsNone(le)

unavailable(m) ==
    IF IsNone(m)
    THEN HTTPException(503, "Model not loaded. Please check server logs.")
    ELSE HTTPException(503, "Label encoder not loaded. Please check server logs.")

\* Mutant of features_ok: shorter feature lists pass.
features_ok_atmost(n) == n <= expected_features

\* "if len(features) != expected_features" fails the request.
features_ok(n) == n = expected_features

bad_input(n) ==
    HTTPException(400, "Expected " \o ToStr(expected_features)
                         \o " features, got " \o ToStr(n))

\* Mutant of internal_error: the underlying message is dropped.
internal_error_nodetail(msg) == HTTPException(500, "Prediction error")

\* "except Exception as e: raise HTTPException(500, f'Prediction error: {e}')"
internal_error(msg) == HTTPException(500, "Prediction error: " \o msg)

\* Mutant of confidence: decision scores take precedence over probabilities.
confidence_scores_first(m, e) ==
    IF m.hasDecision
    THEN [ raised |-> e.scores.raised, msg |-> e.scores.msg,
           val |-> IF ~ e.scores.raised /\ e.scores.val.isarray
                   THEN <<softmax_max(e.scores.val.v)>>
                   ELSE <<>>,
           calls |-> <<"model.decision_function">> ]
    ELSE IF m.hasProba
    THEN [ raised |-> e.proba.raised, msg |-> e.proba.msg,
           val |-> IF e.proba.raised THEN <<>> ELSE <<Max(Range(e.proba.val))>>,
           calls |-> <<"model.predict_proba">> ]
    ELSE [ raised |-> FALSE, msg |-> "", val |-> <<>>, calls |-> <<>> ]

\* The confidence block: the Optional[float], or the exception a call raised,
\* and the calls it made.
confidence(m, e) ==
    IF m.hasProba
    THEN [ raised |-> e.proba.raised, msg |-> e.proba.msg,
           val |-> IF e.proba.raised THEN <<>> ELSE <<Max(Range(e.proba.val))>>,
           calls |-> <<"model.predict_proba">> ]
    ELSE IF m.hasDecision
    THEN [ raised |-> e.scores.raised, msg |-> e.scores.msg,
           val |-> IF ~ e.scores.raised /\ e.scores.val.isarray
                   THEN <<softmax_max(e.scores.val.v)>>
                   ELSE <<>>,
           calls |-> <<"model.decision_function">> ]
    ELSE [ raised |-> FALSE, msg |-> "", val |-> <<>>, calls |-> <<>> ]

\* The try block: scale, predict, decode, derive the confidence.
inference(m, le, sc, e) ==
    LET c1 == IF ~ IsNone(sc) THEN <<"scaler.transform">> ELSE <<>>
        c2 == c1 \o <<"model.predict">>
        idx == e.predict.val
        decode == le.hasInverse
        inv == inverse_transform(le, idx)
        c3 == IF decode THEN c2 \o <<"label_encoder.inverse_transform">> ELSE c2
        label == IF decode THEN inv.val ELSE ToStr(idx)
        cf == confidence(m, e)
        c4 == c3 \o cf.calls
    IN  IF ~ IsNone(sc) /\ e.transform.raised
        THEN [resp |-> internal_error(e.transform.msg), calls |-> c1]
        ELSE IF e.predict.raised
        THEN [resp |-> internal_error(e.predict.msg), calls |-> c2]
        ELSE IF decode /\ inv.raised
        THEN [resp |-> internal_error(inv.msg), calls |-> c3]
        ELSE IF cf.raised
        THEN [resp |-> internal_error(cf.msg), calls |-> c4]
        ELSE [resp |-> PredictResponse(label, cf.val), calls |-> c4]

predict(m, le, sc, n, e) ==
    IF ArtifactsMissing(m, le)
    THEN [resp |-> unavailable(m), calls |-> <<>>]
    ELSE IF ~ features_ok(n)
    THEN [resp |-> bad_input(n), calls |-> <<>>]
    ELSE inference(m, le, sc, e)

\* What the calls made for the request returned; a call not made returned
\* nothing.
Observed(le, e, made) ==
    LET did(c) == c \in Range(made) IN
    [ transform |-> IF did("scaler.transform") THEN e.transform ELSE Ok(0),
      predict |-> IF did("model.predict") THEN e.predict ELSE Ok(0),
      inverse |-> IF did("label_encoder.inverse_transform")
                  THEN inverse_transform(le, e.predict.val) ELSE Ok(""),
      proba |-> IF did("model.predict_proba") THEN e.proba ELSE Ok(<<>>),
      scores |-> IF did("model.decision_function") THEN e.scores
                 ELSE Ok([isarray |-> FALSE, v |-> <<>>]) ]

NoObs == Observed(NoEncoder, QuietEnv, <<>>)

\* The handler's effect on the request-local state.
PredictStep ==
    \E n \in 0..MaxLen :
      \E e \in (IF n = expected_features THEN Envs(model, scaler) ELSE {QuietEnv}) :
        LET out == predict(model, label_encoder, scaler, n, e) IN
          /\ req' = [kind |-> "predict", n |-> n]
          /\ resp' = out.resp
          /\ calls' = out.calls
          /\ obs' = Observed(label_encoder, e, out.calls)

\* Mutant of Predict: the handler drops the scaler after using it.
PredictDropsScaler ==
    /\ Accepting
    /\ PredictStep
    /\ scaler' = NoScaler
    /\ UNCHANGED <<files, model, label_encoder, pc, loads>>

Predict ==
    /\ Accepting
    /\ PredictStep
    /\ UNCHANGED <<files, model, label_encoder, scaler, pc, loads>>

(***************************************************************************)
(* GET /health                                                             *)
(***************************************************************************)
\* Mutant of health_check: both flags report the classifier.
health_check_model_only(m, le) == HealthResponse("ok", ~ IsNone(m), ~ IsNone(m))

health_check(m, le) == HealthResponse("ok", ~ IsNone(m), ~ IsNone(le))

Health ==
    /\ Accepting
    /\ req' = [kind |-> "health", n |-> 0]
    /\ resp' = health_check(model, label_encoder)
    /\ obs' = NoObs
    /\ calls' = <<>>
    /\ UNCHANGED <<files, model, label_encoder, scaler, pc, loads>>

(***************************************************************************)
(* GET /                                                                   *)
(***************************************************************************)
\* Mutant of Root: the handler clears the label encoder.
RootUnloads ==
    /\ Accepting
    /\ req' = [kind |-> "root", n |-> 0]
    /\ resp' = RootResponse
    /\ obs' = NoObs
    /\ calls' = <<>>
    /\ label_encoder' = NoEncoder
    /\ UNCHANGED <<files, model, scaler, pc, loads>>

Root ==
    /\ Accepting
    /\ req' = [kind |-> "root", n |-> 0]
    /\ resp' = RootResponse
    /\ obs' = NoObs
    /\ calls' = <<>>
    /\ UNCHANGED <<files, model, label_encoder, scaler, pc, loads>>

(***************************************************************************)
(* The process.                                                            *)
(***************************************************************************)
Init ==
    /\ files \in [ model : FileStates(ModelObjects, NoModel),
                   encoder : FileStates(EncoderObjects, NoEncoder),
                   scaler : FileStates(ScalerObjects, NoScaler) ]
    /\ model = NoModel
    /\ label_encoder = NoEncoder
    /\ scaler = NoScaler
    /\ pc = "boot"
    /\ loads = 0
    /\ req = [kind |-> "none", n |-> 0]
    /\ obs = NoObs
    /\ calls = <<>>
    /\ resp = [code |-> 0, kind |-> "none"]

Next ==
    \/ StartupBegin
    \/ LoadModel
    \/ LoadEncoder
    \/ LoadScaler
    \/ StartupEnd
    \/ Health
    \/ Predict
    \/ Root

Spec == Init /\ [][Next]_vars

\* The startup event is straight-line code: once begun it runs to its end.
Startup == StartupBegin \/ LoadModel \/ LoadEncoder \/ LoadScaler \/ StartupEnd

FairSpec == Spec /\ WF_vars(Startup)

(***************************************************************************)
(* Properties.                                                             *)
(***************************************************************************)
Ready == ~ IsNone(model) /\ ~ IsNone(label_encoder)

PredictServed == req.kind = "predict"

ValidLength == req.n = expected_features

\* The call of the last request that raised, if any: calls stop at the first.
AnyRaised ==
    \/ obs.transform.raised
    \/ obs.predict.raised
    \/ obs.inverse.raised
    \/ obs.proba.raised
    \/ obs.scores.raised

RaisedMsg ==
    IF obs.transform.raised THEN obs.transform.msg
    ELSE IF obs.predict.raised THEN obs.predict.msg
    ELSE IF obs.inverse.raised THEN obs.inverse.msg
    ELSE IF obs.proba.raised THEN obs.proba.msg
    ELSE obs.scores.msg

\* Every file that exists can be unpickled.
AllLoadable ==
    /\ (files.model.exists => files.model.ok)
    /\ (files.encoder.exists => files.encoder.ok)
    /\ (files.scaler.exists => files.scaler.ok)

ConfidenceInRange(c) == c = <<>> \/ (Len(c) = 1 /\ c[1] >= 0 /\ c[1] <= Scale)

\* C1: a /predict request answered while the classifier or the label decoder
\* is absent gets 503, whatever the length of its feature list.
C1_UnavailableWhenArtifactAbsent ==
    (PredictServed /\ (IsNone(model) \/ IsNone(label_encoder)))
        => (resp.kind = "error" /\ resp.code = 503)

C1_Witness ==
    /\ PredictServed
    /\ ~ IsNone(model)
    /\ IsNone(label_encoder)
    /\ req.n = expected_features + 1
    /\ resp.code = 503

\* C2: with classifier and decoder present, a feature list whose length n is
\* not 63 gets 400 with the message naming 63 and n, and no artifact is called.
C2_BadLengthIs400 ==
    (PredictServed /\ Ready /\ ~ ValidLength)
        => /\ resp.kind = "error"
           /\ resp.code = 400
           /\ resp.detail = "Expected 63 features, got " \o ToStr(req.n)
           /\ (req.n = 0 => resp.detail = "Expected 63 features, got 0")
           /\ (req.n = 62 => resp.detail = "Expected 63 features, got 62")
           /\ (req.n = 64 => resp.detail = "Expected 63 features, got 64")
           /\ calls = <<>>

C2_Witness ==
    /\ PredictServed
    /\ Ready
    /\ req.n = 62
    /\ resp.code = 400
    /\ resp.detail = "Expected 63 features, got 62"

\* C3 as stated: with classifier and decoder present, every 63-feature request
\* gets 200 with a label of the decoder's class set and a confidence that is
\* null or in [0,1], never an error.
C3_AlwaysSuccess ==
    (PredictServed /\ Ready /\ ValidLength)
        => /\ resp.code = 200
           /\ resp.prediction \in Range(label_encoder.classes)
           /\ ConfidenceInRange(resp.confidence)

\* C3 amended: with classifier and decoder present, a 63-feature request gets
\* either 200 or 500, never 400 or 503; a 500 only when a call raised; on 200
\* the confidence is null or in [0,1] and the label is a member of the
\* decoder's class set when the decoder has inverse_transform, and the
\* stringified predicted index when it has not.
C3_SuccessOrInternal ==
    (PredictServed /\ Ready /\ ValidLength)
        => \/ /\ resp.code = 200
              /\ ~ AnyRaised
              /\ ConfidenceInRange(resp.confidence)
              /\ (label_encoder.hasInverse
                    => resp.prediction \in Range(label_encoder.classes))
              /\ (~ label_encoder.hasInverse
                    => resp.prediction = ToStr(obs.predict.val))
           \/ /\ resp.code = 500
              /\ AnyRaised

C3_Witness ==
    /\ PredictServed
    /\ Ready
    /\ ValidLength
    /\ resp.code = 200
    /\ label_encoder.hasInverse
    /\ resp.prediction = "B"
    /\ resp.confidence # <<>>

\* C4: /health answers 200 with status "ok", model_loaded telling whether the
\* classifier is present and label_encoder_loaded whether the decoder is; and
\* when both required files existed at the load both flags are true.
C4_HealthReportsPresence ==
    (req.kind = "health")
        => /\ resp.code = 200
           /\ resp.status = "ok"
           /\ resp.model_loaded = (~ IsNone(model))
           /\ resp.label_encoder_loaded = (~ IsNone(label_encoder))
           /\ ((files.model.exists /\ files.encoder.exists)
                 => (resp.model_loaded /\ resp.label_encoder_loaded))

C4_Witness ==
    /\ req.kind = "health"
    /\ resp.model_loaded
    /\ ~ resp.label_encoder_loaded
    /\ ~ IsNone(scaler)

\* C5: with classifier and decoder present and 63 features, a failure raised
\* while scaling, predicting, decoding or deriving the confidence is answered
\* 500 with the underlying error's description.
C5_FailureIs500 ==
    (PredictServed /\ Ready /\ ValidLength /\ AnyRaised)
        => /\ resp.kind = "error"
           /\ resp.code = 500
           /\ resp.detail = "Prediction error: " \o RaisedMsg

C5_Witness ==
    /\ PredictServed
    /\ Ready
    /\ ValidLength
    /\ obs.scores.raised
    /\ resp.code = 500
    /\ resp.detail = "Prediction error: decision_function failed"

\* C6: no step taken while the server is serving requests changes the
\* classifier, the label decoder or the scaler.
C6_HandlersKeepBundle ==
    [][pc = "serving"
         => (model' = model /\ label_encoder' = label_encoder /\ scaler' = scaler)]_vars

C6_Witness ==
    /\ PredictServed
    /\ resp.code = 200
    /\ calls[1] = "scaler.transform"
    /\ ~ IsNone(scaler)
    /\ scaler = files.scaler.obj
    /\ model = files.model.obj
    /\ label_encoder = files.encoder.obj

\* C7: load_models runs once, and a request is only ever answered after it
\* has finished: every artifact whose file exists is then loaded.
C7_LoadBeforeRequests ==
    /\ loads <= 1
    /\ (req.kind # "none" => pc = "serving")
    /\ (pc = "serving"
          => /\ loads = 1
             /\ (files.model.exists => ~ IsNone(model))
             /\ (files.encoder.exists => ~ IsNone(label_encoder))
             /\ (files.scaler.exists => ~ IsNone(scaler)))

C7_Witness ==
    /\ req.kind = "health"
    /\ pc = "serving"
    /\ loads = 1
    /\ files.model.exists
    /\ files.encoder.exists
    /\ files.scaler.exists

\* C8: readiness is one-directional: Ready is never lost, it is only ever
\* gained during startup and never while serving, and a process serving
\* NotReady answers every /predict with 503.
C8_ReadinessOneWay ==
    /\ [][/\ (Ready => Ready')
          /\ ((~ Ready /\ Ready') => pc \in {"load_model", "load_encoder"})
          /\ ((pc = "serving" /\ ~ Ready) => ~ Ready')]_vars
    /\ []((pc = "serving" /\ ~ Ready /\ PredictServed) => resp.code = 503)

C8_Witness ==
    /\ pc = "serving"
    /\ ~ Ready
    /\ PredictServed
    /\ ValidLength
    /\ resp.code = 503

\* C9 as stated: on a 200 the confidence is the maximum class probability if
\* the classifier has predict_proba; else the (non-null) softmax maximum if it
\* has decision_function; it is null only when it has neither.
C9_NullOnlyWithoutCapability ==
    (PredictServed /\ resp.code = 200)
        => /\ (model.hasProba
                 => resp.confidence = <<Max(Range(obs.proba.val))>>)
           /\ ((~ model.hasProba /\ model.hasDecision)
                 => /\ resp.confidence # <<>>
                    /\ resp.confidence = <<softmax_max(obs.scores.val.v)>>)
           /\ (resp.confidence = <<>> => (~ model.hasProba /\ ~ model.hasDecision))

\* C9 amended: on a 200 the confidence is the maximum class probability if the
\* classifier has predict_proba (decision_function is then not called); else,
\* if it has decision_function, the softmax maximum when the scores are an
\* array and null when they are a scalar; it is null only when the classifier
\* has neither capability or has scalar decision scores and no predict_proba.
C9_ConfidencePrecedence ==
    (PredictServed /\ resp.code = 200)
        => /\ (model.hasProba
                 => /\ "model.predict_proba" \in Range(calls)
                    /\ "model.decision_function" \notin Range(calls)
                    /\ resp.confidence = <<Max(Range(obs.proba.val))>>)
           /\ ((~ model.hasProba /\ model.hasDecision /\ obs.scores.val.isarray)
                 => /\ resp.confidence = <<softmax_max(obs.scores.val.v)>>
                    /\ resp.confidence[1] <= Scale
                    /\ resp.confidence[1] * Len(obs.scores.val.v)
                         >= Scale - Len(obs.scores.val.v))
           /\ ((~ model.hasProba /\ model.hasDecision /\ ~ obs.scores.val.isarray)
                 => resp.confidence = <<>>)
           /\ ((~ model.hasProba /\ ~ model.hasDecision) => resp.confidence = <<>>)

C9_Witness ==
    /\ PredictServed
    /\ resp.code = 200
    /\ model.hasProba
    /\ model.hasDecision
    /\ resp.confidence = <<Scale \div 2>>

====
